---- MODULE Spec2Model ----
(***************************************************************************)
(* rclcpp::TimerBase (src/rclcpp/src/rclcpp/timer.cpp) as a state machine. *)
(*                                                                         *)
(* The timer wraps a native rcl timer record.  The rcl engine is external: *)
(* every rcl_* call returns a status the wrapper cannot choose, so the     *)
(* status of each call is an input drawn from RclRet, and a call has its   *)
(* effect on the engine's state exactly when it returns RCL_RET_OK.        *)
(*                                                                         *)
(* Each thread runs a stack of frames, one per call in progress: a frame   *)
(* is a method of TimerBase, the shared_ptr deleter of timer_handle_, or   *)
(* an invocation of the on-reset callback made by the engine from inside   *)
(* rcl_timer_reset.  A callback may call back into the timer, which is why *)
(* a thread needs a stack and callback_mutex_ is recursive.                *)
(***************************************************************************)
EXTENDS Integers, Sequences, FiniteSets, TLC

\* ------------------------------------------------------------------ bounds
\* Number of set_on_reset_callback calls that build an adapter (adapter ids).
MaxInstalls == 2
\* Frames a thread may have in progress (nesting of re-entrant calls).
MaxStack == 4
\* References to the native handle held outside the timer (get_timer_handle).
MaxExtRefs == 1

\* Stands for std::chrono::nanoseconds::max(); the engine reports durations
\* in -1 .. NanosecondsMax.
NanosecondsMax == 2

Threads == {"t1", "t2"}
\* Another user of the shared clock (another timer, or the clock's owner).
OtherUser == "other"

RCL_RET_OK == "RCL_RET_OK"
RCL_RET_ERROR == "RCL_RET_ERROR"
RCL_RET_TIMER_CANCELED == "RCL_RET_TIMER_CANCELED"
RclRet == {RCL_RET_OK, RCL_RET_ERROR, RCL_RET_TIMER_CANCELED}

AdapterIds == 1 .. MaxInstalls
NoCallback == 0

\* Callback addresses the engine can be registered with.
NullPtr == [kind |-> "null", id |-> 0]
SlotPtr == [kind |-> "slot", id |-> 0]
TmpPtr(i) == [kind |-> "tmp", id |-> i]

VARIABLES
  timer,               \* life of the TimerBase object
  native,              \* the rcl_timer_t record behind timer_handle_
  handleMember,        \* timer_handle_ (the member) owns the record
  handleExt,           \* owners obtained through get_timer_handle()
  clockHeld,           \* holders of the rclcpp::Clock shared_ptr
  ctxHeld,             \* holders of the rcl_context shared_ptr
  clockMutex,          \* owner of clock->get_clock_mutex()
  callback_mutex_,     \* [owner, count] of the recursive mutex
  on_reset_callback_,  \* the callback slot: an adapter id, or NoCallback
  in_use_by_wait_set_, \* the atomic flag
  canceled,            \* engine: the timer is canceled
  enginePtr,           \* engine: registered callback address
  tmpAlive,            \* adapters (new_callback locals) alive on a stack
  nextId,              \* next adapter id
  stack,               \* per thread, the frames in progress
  result,              \* outcome of the call the last step completed
  ecall,               \* the engine call the last step made
  hist                 \* history used to state the claims

vars == <<timer, native, handleMember, handleExt, clockHeld, ctxHeld,
          clockMutex, callback_mutex_, on_reset_callback_,
          in_use_by_wait_set_, canceled, enginePtr, tmpAlive, nextId,
          stack, result, ecall, hist>>

lifeVars == <<timer, native, handleMember, handleExt, clockHeld, ctxHeld,
              clockMutex>>
cbVars == <<callback_mutex_, on_reset_callback_, enginePtr, tmpAlive, nextId>>

\* ----------------------------------------------------------------- helpers
\* A call in progress.  A frame of the on-reset callback also keeps the
\* address it was invoked through (via) and whether the callable that is
\* running has been destroyed (flag).
Frame(op, pc, id, ret, snap) ==
  [op |-> op, pc |-> pc, id |-> id, ret |-> ret, snap |-> snap, inv |-> 0,
   flag |-> FALSE, via |-> NullPtr]

Top(t) == stack[t][Len(stack[t])]
Depth(t) == Len(stack[t])
Push(t, f) == [stack EXCEPT ![t] = Append(@, f)]
Pop(t) == [stack EXCEPT ![t] = SubSeq(@, 1, Len(@) - 1)]
Goto(t, pc) == [stack EXCEPT ![t][Len(stack[t])].pc = pc]
GotoRet(t, pc, ret) ==
  [stack EXCEPT ![t][Len(stack[t])].pc = pc, ![t][Len(stack[t])].ret = ret]
At(t, op, pc) == Depth(t) > 0 /\ Top(t).op = op /\ Top(t).pc = pc

\* Outcome of a completed call: the status the caller sees ("ok" or the
\* exception), the engine status behind it, the value returned, the value the
\* engine reported (eng) and the last successful cancel/reset when the engine
\* was asked (mut).
Res(op, status, ret, bval, nval, eng, mut) ==
  [op |-> op, status |-> status, ret |-> ret, bval |-> bval, nval |-> nval,
   eng |-> eng, mut |-> mut, flag |-> FALSE, by |-> "none"]
NoRes == Res("none", "none", RCL_RET_OK, FALSE, 0, 0, "none")
\* The outcome r of a call completed by thread t.
Done(t, r) == [r EXCEPT !.by = t]

ClockAlive == clockHeld # {}
CtxAlive == ctxHeld # {}

\* A callback invocation made by the engine: the adapter that ran (0: the
\* program crashed instead; -1: no invocation), whether the registered address
\* was valid storage, and whether that adapter had been replaced or cleared
\* before the reset began.
NoFired == [id |-> -1, valid |-> TRUE, stale |-> FALSE]

\* The engine call the last step made, if it made one: the function, the
\* calling thread, what held when it ran, and the callback the engine fired
\* in it.
NoCall ==
  [fn |-> "none", by |-> "none", clockLocked |-> FALSE, clockAlive |-> FALSE,
   ctxAlive |-> FALSE, fired |-> NoFired]
ECall(fn, t, ret) ==
  [fn |-> fn, by |-> t,
   clockLocked |-> (clockMutex = t), clockAlive |-> ClockAlive,
   ctxAlive |-> CtxAlive, fired |-> NoFired]

\* rclcpp::exceptions::throw_from_rcl_error: every status but RCL_RET_OK
\* becomes an exception.
Status(ret) == IF ret = RCL_RET_OK THEN "ok" ELSE "rcl_error"

\* A thread may start a call on the timer from outside (no frame) or from
\* inside a running callback.
InCallback(t) == At(t, "callback", "cb_body")
CanCall(t) ==
  /\ timer = "alive"
  /\ \/ Depth(t) = 0
     \/ InCallback(t) /\ Depth(t) < MaxStack

\* Another thread is inside set_on_reset_callback or clear_on_reset_callback.
OthersInFlux(t) ==
  \E u \in Threads \ {t} : \E i \in 1 .. Len(stack[u]) :
     stack[u][i].op \in {"set", "clear"}

\* History: the callback installed once thread t's registration call
\* returns (NoCallback: none), or -1 when that cannot be told: the call
\* failed, another registration call is in progress, or another one took the
\* lock after this one.
Settled(t) ==
  IF Top(t).ret = RCL_RET_OK /\ ~OthersInFlux(t) /\ hist.last = t
  THEN on_reset_callback_ ELSE -1

\* The stacks once the callable with adapter id, stored at address p, has
\* been destroyed: its invocations in progress go on in a destroyed object.
Destroyed(stk, p, id) ==
  [u \in Threads |->
     [i \in 1 .. Len(stk[u]) |->
        IF stk[u][i].op = "callback" /\ stk[u][i].via = p
             /\ stk[u][i].id = id
        THEN [stk[u][i] EXCEPT !.flag = TRUE]
        ELSE stk[u][i]]]

\* The recursive mutex callback_mutex_: a thread may lock it when nobody or
\* the thread itself owns it.
FreeNonRecursive(m, t) == m.owner = "none"

Free(m, t) == m.owner \in {"none", t}
Acquire(m, t) == [owner |-> t, count |-> m.count + 1]
Release(m) ==
  IF m.count = 1 THEN [owner |-> "none", count |-> 0]
  ELSE [owner |-> m.owner, count |-> m.count - 1]

\* ------------------------------------------------------------------ engine
\* Statuses the engine may return for call fn in the current state.  The
\* time-until-next-call query reports the distinguished canceled status
\* exactly when the timer is canceled, unless it fails outright.
EngineRets(fn) ==
  IF fn = "rcl_timer_get_time_until_next_call"
  THEN IF canceled THEN {RCL_RET_TIMER_CANCELED, RCL_RET_ERROR}
                   ELSE {RCL_RET_OK, RCL_RET_ERROR}
  ELSE RclRet

EngineDurations == -1 .. NanosecondsMax

\* -------------------------------------------------------------------- Init
Init ==
  /\ timer = "none"
  /\ native = "none"
  /\ handleMember = FALSE
  /\ handleExt = 0
  /\ clockHeld = {"owner"}
  /\ ctxHeld = {"owner"}
  /\ clockMutex = "none"
  /\ callback_mutex_ = [owner |-> "none", count |-> 0]
  /\ on_reset_callback_ = NoCallback
  /\ in_use_by_wait_set_ = FALSE
  /\ canceled = FALSE
  /\ enginePtr = NullPtr
  /\ tmpAlive = {}
  /\ nextId = 1
  /\ stack = [t \in Threads |-> <<>>]
  /\ result = Done("none", NoRes)
  /\ ecall = NoCall
  /\ hist = [lastMut |-> "none", claimed |-> 0, claimer |-> "none",
             last |-> "none", finiCount |-> 0,
             retired |-> {}, cur |-> 0, cleared |-> FALSE,
             replaced |-> FALSE,
             finiOf |-> "none", dtorCleared |-> FALSE,
             regFailed |-> FALSE]

\* ------------------------------------------- 4.2 state query and mutation
\* TimerBase::cancel
cancel(t) ==
  /\ CanCall(t)
  /\ \E ret \in EngineRets("rcl_timer_cancel") :
       /\ ecall' = ECall("rcl_timer_cancel", t, ret)
       /\ canceled' = IF ret = RCL_RET_OK THEN TRUE ELSE canceled
       /\ hist' = IF ret = RCL_RET_OK
                  THEN [hist EXCEPT !.lastMut = "cancel"]
                  ELSE hist
       /\ result' = Done(t,
            Res("cancel", Status(ret), ret, FALSE, 0, 0, hist.lastMut))
  /\ UNCHANGED <<lifeVars, cbVars, in_use_by_wait_set_, stack>>

\* What is_canceled returns when the engine call returned ret and wrote
\* engine_canceled to the local is_canceled (initially false).
IsCanceledForgetsEngine(ret, engine_canceled) == FALSE

IsCanceled(ret, engine_canceled) ==
  IF ret = RCL_RET_OK THEN engine_canceled ELSE FALSE

\* TimerBase::is_canceled
is_canceled(t) ==
  /\ CanCall(t)
  /\ \E ret \in EngineRets("rcl_timer_is_canceled") :
       /\ ecall' = ECall("rcl_timer_is_canceled", t, ret)
       /\ result' = Done(t,
            Res("is_canceled", Status(ret), ret,
                IsCanceled(ret, canceled), 0, 0, hist.lastMut))
  /\ UNCHANGED <<lifeVars, cbVars, in_use_by_wait_set_, stack, canceled, hist>>

\* TimerBase::is_ready: the engine decides readiness.
is_ready(t) ==
  /\ CanCall(t)
  /\ \E ret \in EngineRets("rcl_timer_is_ready"), ready \in BOOLEAN :
       /\ ret # RCL_RET_OK => ready = FALSE
       /\ ecall' = ECall("rcl_timer_is_ready", t, ret)
       /\ result' = Done(t,
            Res("is_ready", Status(ret), ret, ready, 0, 0, hist.lastMut))
  /\ UNCHANGED <<lifeVars, cbVars, in_use_by_wait_set_, stack, canceled, hist>>

\* The status and value time_until_trigger gives for an engine status and
\* the duration the engine wrote.
TimeUntilCanceledIsError(ret, time_until_next_call) ==
  IF ret # RCL_RET_OK
  THEN [status |-> "rcl_error", nval |-> 0]
  ELSE [status |-> "ok", nval |-> time_until_next_call]

TimeUntilTrigger(ret, time_until_next_call) ==
  IF ret = RCL_RET_TIMER_CANCELED
  THEN [status |-> "ok", nval |-> NanosecondsMax]
  ELSE IF ret # RCL_RET_OK
       THEN [status |-> "rcl_error", nval |-> 0]
       ELSE [status |-> "ok", nval |-> time_until_next_call]

\* TimerBase::time_until_trigger
time_until_trigger(t) ==
  /\ CanCall(t)
  /\ \E ret \in EngineRets("rcl_timer_get_time_until_next_call"),
        d \in EngineDurations :
       /\ ret # RCL_RET_OK => d = 0
       /\ ecall' = ECall("rcl_timer_get_time_until_next_call", t, ret)
       /\ result' = Done(t,
            Res("time_until_trigger", TimeUntilTrigger(ret, d).status, ret,
                FALSE, TimeUntilTrigger(ret, d).nval, d, hist.lastMut))
  /\ UNCHANGED <<lifeVars, cbVars, in_use_by_wait_set_, stack, canceled, hist>>

\* ------------------------------------------------ 4.4 wait-set interop flag
\* std::atomic<bool>::exchange: the value returned for a flag holding `held`
\* when `in_use_state` is stored.
ExchangeReturnsStored(held, in_use_state) == in_use_state

Exchange(held, in_use_state) == held

\* TimerBase::exchange_in_use_by_wait_set_state
exchange_in_use_by_wait_set_state(t) ==
  /\ CanCall(t)
  /\ \E in_use_state \in BOOLEAN :
       /\ in_use_by_wait_set_' = in_use_state
       /\ result' = Done(t,
            Res("exchange_in_use_by_wait_set_state", "ok", RCL_RET_OK,
                Exchange(in_use_by_wait_set_, in_use_state),
                IF in_use_state THEN 1 ELSE 0,
                IF in_use_by_wait_set_ THEN 1 ELSE 0, hist.lastMut))
       /\ hist' = [hist EXCEPT
            !.claimed =
               IF ~in_use_state THEN 0
               ELSE IF Exchange(in_use_by_wait_set_, in_use_state) = FALSE
                    THEN @ + 1 ELSE @,
            !.claimer =
               IF ~in_use_state THEN "none"
               ELSE IF Exchange(in_use_by_wait_set_, in_use_state) = FALSE
                    THEN t ELSE @]
  /\ ecall' = NoCall
  /\ UNCHANGED <<lifeVars, cbVars, stack, canceled>>

\* ------------------------------------------- 4.3 callback registration
\* TimerBase::set_on_reset_callback(rcl_event_callback_t, const void *): the
\* address the engine holds after rcl_timer_set_on_reset_callback(user_data)
\* returned ret.
RegisterDropsAddress(user_data, ret) ==
  IF ret = RCL_RET_OK THEN NullPtr ELSE enginePtr

RegisterSkipsNull(user_data, ret) ==
  IF ret = RCL_RET_OK /\ user_data.kind # "null" THEN user_data
  ELSE enginePtr

Register(user_data, ret) == IF ret = RCL_RET_OK THEN user_data ELSE enginePtr

\* History: a call of rcl_timer_set_on_reset_callback returned ret.
RegistrationCall(ret) ==
  [hist EXCEPT !.regFailed = @ \/ ret # RCL_RET_OK]

\* The address is storage that is constructed and not destroyed.
ValidPtr(p) ==
  \/ p.kind = "null"
  \/ p.kind = "tmp" /\ p.id \in tmpAlive
  \/ p.kind = "slot" /\ timer \in {"alive", "destructing"}
       /\ on_reset_callback_ # NoCallback

\* lines 154-158: if (!callback) throw std::invalid_argument
ArgumentUnchecked(callable) == "proceed"

ArgumentCheck(callable) ==
  IF callable THEN "proceed" ELSE "invalid_argument"

\* set_on_reset_callback(callback), lines 152-160: a callback that is not
\* callable is rejected before anything else; otherwise the adapter
\* new_callback is built on the caller's stack (the frame's flag: the
\* callback wrapped is not callable).
set_on_reset_callback(t) ==
  /\ CanCall(t)
  /\ \E callable \in BOOLEAN :
       IF ArgumentCheck(callable) = "invalid_argument"
       THEN /\ result' = Done(t,
                 Res("set_on_reset_callback", "invalid_argument", RCL_RET_OK,
                     FALSE, 0, 0, hist.lastMut))
            /\ UNCHANGED <<stack, tmpAlive, nextId, hist>>
       ELSE /\ nextId <= MaxInstalls
            /\ stack' = Push(t, [Frame("set", "set_lock", nextId,
                                        RCL_RET_OK, {})
                                  EXCEPT !.flag = ~callable])
            /\ tmpAlive' = tmpAlive \cup {nextId}
            /\ nextId' = nextId + 1
            /\ hist' = [hist EXCEPT !.cur = -1, !.cleared = FALSE,
                                    !.replaced = FALSE]
            /\ result' = NoRes
  /\ ecall' = NoCall
  /\ UNCHANGED <<lifeVars, callback_mutex_, on_reset_callback_, enginePtr,
                 in_use_by_wait_set_, canceled>>

\* line 180: std::lock_guard<std::recursive_mutex> lock(callback_mutex_)
set_lock(t) ==
  /\ At(t, "set", "set_lock")
  /\ Free(callback_mutex_, t)
  /\ callback_mutex_' = Acquire(callback_mutex_, t)
  /\ hist' = [hist EXCEPT !.last = t]
  /\ stack' = Goto(t, "set_tmp")
  /\ result' = NoRes
  /\ ecall' = NoCall
  /\ UNCHANGED <<lifeVars, on_reset_callback_, enginePtr, tmpAlive, nextId,
                 in_use_by_wait_set_, canceled>>

\* lines 185-188: register the adapter on the stack with the engine.
set_tmp(t) ==
  /\ At(t, "set", "set_tmp")
  /\ \E ret \in EngineRets("rcl_timer_set_on_reset_callback") :
       /\ ecall' = ECall("rcl_timer_set_on_reset_callback", t, ret)
       /\ enginePtr' = Register(TmpPtr(Top(t).id), ret)
       /\ stack' = GotoRet(t, IF ret = RCL_RET_OK THEN "set_store"
                                                 ELSE "set_unlock", ret)
       /\ hist' = RegistrationCall(ret)
  /\ result' = NoRes
  /\ UNCHANGED <<lifeVars, callback_mutex_, on_reset_callback_, tmpAlive,
                 nextId, in_use_by_wait_set_, canceled>>

\* line 191: on_reset_callback_ = new_callback, which destroys the callback
\* stored before.
set_store(t) ==
  /\ At(t, "set", "set_store")
  /\ on_reset_callback_' = Top(t).id
  /\ hist' = [hist EXCEPT
       !.retired = IF on_reset_callback_ = NoCallback THEN @
                   ELSE @ \cup {on_reset_callback_},
       !.replaced = (on_reset_callback_ # NoCallback)]
  /\ stack' = Destroyed(Goto(t, "set_perm"), SlotPtr, on_reset_callback_)
  /\ result' = NoRes
  /\ ecall' = NoCall
  /\ UNCHANGED <<lifeVars, callback_mutex_, enginePtr, tmpAlive, nextId,
                 in_use_by_wait_set_, canceled>>

\* lines 194-197: the address given to the engine in the second
\* registration of the call that built adapter id, &on_reset_callback_.
PermanentStaysTemporary(id) == TmpPtr(id)

PermanentAddress(id) == SlotPtr

\* lines 194-197: register the permanent storage with the engine.
set_perm(t) ==
  /\ At(t, "set", "set_perm")
  /\ \E ret \in EngineRets("rcl_timer_set_on_reset_callback") :
       /\ ecall' = ECall("rcl_timer_set_on_reset_callback", t, ret)
       /\ enginePtr' = Register(PermanentAddress(Top(t).id), ret)
       /\ stack' = GotoRet(t, "set_unlock", ret)
       /\ hist' = RegistrationCall(ret)
  /\ result' = NoRes
  /\ UNCHANGED <<lifeVars, callback_mutex_, on_reset_callback_, tmpAlive,
                 nextId, in_use_by_wait_set_, canceled>>

\* Leaving the scope, by return or by exception: the lock_guard, built after
\* new_callback, is destroyed first.
set_unlock(t) ==
  /\ At(t, "set", "set_unlock")
  /\ callback_mutex_' = Release(callback_mutex_)
  /\ stack' = Goto(t, "set_exit")
  /\ result' = NoRes
  /\ ecall' = NoCall
  /\ UNCHANGED <<lifeVars, on_reset_callback_, enginePtr, tmpAlive, nextId,
                 in_use_by_wait_set_, canceled, hist>>

\* Then new_callback is destroyed and the call returns or throws.
set_exit(t) ==
  /\ At(t, "set", "set_exit")
  /\ tmpAlive' = tmpAlive \ {Top(t).id}
  /\ stack' = Destroyed(Pop(t), TmpPtr(Top(t).id), Top(t).id)
  /\ result' = Done(t,
       Res("set_on_reset_callback", Status(Top(t).ret), Top(t).ret, FALSE,
           Top(t).id, 0, hist.lastMut))
  /\ hist' = [hist EXCEPT
       !.cur = Settled(t)]
  /\ ecall' = NoCall
  /\ UNCHANGED <<lifeVars, callback_mutex_, on_reset_callback_, enginePtr,
                 nextId, in_use_by_wait_set_, canceled>>

\* clear_on_reset_callback: the call begins.  The frame keeps whether the
\* last registration call to return was a clear that succeeded (flag) and the
\* number of adapters built by then (id).
clear_on_reset_callback(t) ==
  /\ CanCall(t)
  /\ stack' = Push(t, [Frame("clear", "clear_lock", nextId, RCL_RET_OK, {})
                         EXCEPT !.flag = hist.cleared])
  /\ hist' = [hist EXCEPT !.cur = -1, !.cleared = FALSE]
  /\ result' = NoRes
  /\ ecall' = NoCall
  /\ UNCHANGED <<lifeVars, cbVars, in_use_by_wait_set_, canceled>>

\* line 203: take the lock.  The flag stays when no set_on_reset_callback
\* began since the call began.
clear_lock(t) ==
  /\ At(t, "clear", "clear_lock")
  /\ Free(callback_mutex_, t)
  /\ callback_mutex_' = Acquire(callback_mutex_, t)
  /\ hist' = [hist EXCEPT !.last = t]
  /\ stack' = [stack EXCEPT ![t][Len(stack[t])] =
       [Top(t) EXCEPT !.pc = "clear_check",
                      !.flag = Top(t).flag /\ Top(t).id = nextId]]
  /\ result' = NoRes
  /\ ecall' = NoCall
  /\ UNCHANGED <<lifeVars, on_reset_callback_, enginePtr, tmpAlive, nextId,
                 in_use_by_wait_set_, canceled>>

\* line 205: if (on_reset_callback_)
ClearAlways == TRUE

ClearNeeded == on_reset_callback_ # NoCallback

\* lines 205-206: with a callback installed, unregister it from the engine
\* (inv counts the engine calls of the call).
clear_check(t) ==
  /\ At(t, "clear", "clear_check")
  /\ IF ~ClearNeeded
     THEN /\ stack' = Goto(t, "clear_exit")
          /\ ecall' = NoCall
          /\ UNCHANGED <<enginePtr, hist>>
     ELSE \E ret \in EngineRets("rcl_timer_set_on_reset_callback") :
            /\ ecall' = ECall("rcl_timer_set_on_reset_callback", t, ret)
            /\ enginePtr' = Register(NullPtr, ret)
            /\ stack' = [stack EXCEPT ![t][Len(stack[t])] =
                 [Top(t) EXCEPT
                    !.pc = IF ret = RCL_RET_OK THEN "clear_store"
                           ELSE "clear_exit",
                    !.ret = ret, !.inv = 1]]
            /\ hist' = RegistrationCall(ret)
  /\ result' = NoRes
  /\ UNCHANGED <<lifeVars, callback_mutex_, on_reset_callback_, tmpAlive,
                 nextId, in_use_by_wait_set_, canceled>>

\* line 207: on_reset_callback_ = nullptr
clear_store(t) ==
  /\ At(t, "clear", "clear_store")
  /\ on_reset_callback_' = NoCallback
  /\ hist' = [hist EXCEPT !.retired = @ \cup {on_reset_callback_},
                          !.dtorCleared = (timer = "destructing")]
  /\ stack' = Destroyed(Goto(t, "clear_exit"), SlotPtr, on_reset_callback_)
  /\ result' = NoRes
  /\ ecall' = NoCall
  /\ UNCHANGED <<lifeVars, callback_mutex_, enginePtr, tmpAlive, nextId,
                 in_use_by_wait_set_, canceled>>

\* The life of the timer once clear_on_reset_callback() has left with the
\* engine's status ret: an exception that leaves ~TimerBase, which is
\* noexcept, ends the program (std::terminate).
DtorSwallowsThrow(life, ret) == life

ClearLeaves(life, ret) ==
  IF life = "destructing" /\ ret # RCL_RET_OK THEN "terminated" ELSE life

\* Unlock and return, or throw the engine's error.  Thrown inside the
\* destructor, which is noexcept, the error ends the program.  The result
\* keeps the number of engine calls made (nval) and whether the call came
\* right after a clear that succeeded (flag).
clear_exit(t) ==
  /\ At(t, "clear", "clear_exit")
  /\ callback_mutex_' = Release(callback_mutex_)
  /\ stack' = Pop(t)
  /\ result' = Done(t,
       [Res("clear_on_reset_callback", Status(Top(t).ret), Top(t).ret, FALSE,
            Top(t).inv, 0, hist.lastMut) EXCEPT !.flag = Top(t).flag])
  /\ hist' = [hist EXCEPT
       !.cur = Settled(t),
       !.cleared = (Settled(t) = NoCallback)]
  /\ timer' = ClearLeaves(timer, Top(t).ret)
  /\ ecall' = NoCall
  /\ UNCHANGED <<native, handleMember, handleExt, clockHeld, ctxHeld,
                 clockMutex, on_reset_callback_, enginePtr, tmpAlive, nextId,
                 in_use_by_wait_set_, canceled>>

\* ----------------------------------------------------------------- reset
\* What the adapter new_callback (lines 161-178) hands back to the engine
\* when the user callback ends with userOutcome: both catch clauses swallow
\* the exception.
AdapterRethrows(userOutcome) == userOutcome

Adapter(userOutcome) == "returned"

\* TimerBase::reset: the call begins.  The frame keeps what had been
\* replaced or cleared by then (snap), the callback installed by then (id,
\* -1 while a registration is in progress) and whether the last registration
\* call to return was a clear (flag).
reset(t) ==
  /\ timer = "alive"
  /\ \/ Depth(t) = 0
     \/ InCallback(t) /\ Depth(t) + 2 <= MaxStack
  /\ stack' = Push(t, [Frame("reset", "reset_lock", hist.cur, RCL_RET_OK,
                             hist.retired) EXCEPT !.flag = hist.cleared])
  /\ result' = NoRes
  /\ ecall' = NoCall
  /\ UNCHANGED <<lifeVars, cbVars, in_use_by_wait_set_, canceled, hist>>

reset_lock(t) ==
  /\ At(t, "reset", "reset_lock")
  /\ Free(callback_mutex_, t)
  /\ callback_mutex_' = Acquire(callback_mutex_, t)
  /\ stack' = Goto(t, "reset_engine")
  /\ result' = NoRes
  /\ ecall' = NoCall
  /\ UNCHANGED <<lifeVars, on_reset_callback_, enginePtr, tmpAlive, nextId,
                 in_use_by_wait_set_, canceled, hist>>

\* The adapters the engine may end up running through address p: the one
\* stored there, or, through an address of destroyed storage, anything (0
\* stands for a crash).
Invoked(p) ==
  IF p.kind = "slot" /\ on_reset_callback_ # NoCallback
  THEN {on_reset_callback_}
  ELSE IF p.kind = "tmp" /\ p.id \in tmpAlive
       THEN {p.id}
       ELSE 0 .. (nextId - 1)

\* The reset frame f once the engine call returned ret having run adapter j
\* (0: none).
AfterEngine(f, ret, j) ==
  [f EXCEPT !.pc = "reset_exit", !.ret = ret, !.inv = j,
            !.id = IF hist.cur = f.id THEN f.id ELSE -1,
            !.flag = f.flag /\ hist.cleared]

\* line 107: rcl_timer_reset.  On success the engine clears the canceled
\* state and calls the registered callback, if any, once, before returning.
reset_engine(t) ==
  /\ At(t, "reset", "reset_engine")
  /\ \E ret \in EngineRets("rcl_timer_reset") :
       IF ret # RCL_RET_OK
       THEN /\ ecall' = ECall("rcl_timer_reset", t, ret)
            /\ stack' = [stack EXCEPT ![t][Len(stack[t])] =
                           AfterEngine(Top(t), ret, 0)]
            /\ UNCHANGED <<canceled, hist, timer>>
       ELSE /\ canceled' = FALSE
            /\ hist' = [hist EXCEPT !.lastMut = "reset"]
            /\ IF enginePtr.kind = "null"
               THEN /\ ecall' = ECall("rcl_timer_reset", t, ret)
                    /\ stack' = [stack EXCEPT ![t][Len(stack[t])] =
                                   AfterEngine(Top(t), ret, 0)]
                    /\ UNCHANGED timer
               ELSE \E j \in Invoked(enginePtr) :
                    /\ ecall' = [ECall("rcl_timer_reset", t, ret) EXCEPT
                         !.fired = [id |-> j, valid |-> ValidPtr(enginePtr),
                                    stale |-> j \in Top(t).snap]]
                    /\ IF j = 0
                       THEN /\ timer' = "crashed"
                            /\ UNCHANGED stack
                       ELSE /\ timer' = timer
                            /\ stack' = [stack EXCEPT ![t] =
                                 Append(SubSeq(stack[t], 1, Depth(t) - 1),
                                        AfterEngine(Top(t), ret, j))
                                 \o <<[Frame("callback", "cb_body", j,
                                             RCL_RET_OK, {}) EXCEPT
                                         !.via = enginePtr,
                                         !.flag = ~ValidPtr(enginePtr)]>>]
  /\ result' = NoRes
  /\ UNCHANGED <<native, handleMember, handleExt, clockHeld, ctxHeld,
                 clockMutex, cbVars, in_use_by_wait_set_>>

\* The reset frame f once the callback it fired handed outcome back to the
\* engine: an exception would leave rcl_timer_reset and then reset().
AfterCallback(f, userOutcome, outcome) ==
  [f EXCEPT !.ret = IF outcome = "threw" THEN "user_exception" ELSE f.ret,
            !.pc = IF userOutcome = "threw" THEN "reset_exit_threw"
                   ELSE f.pc]

\* The user callback ends, normally or by throwing, and the adapter hands
\* the outcome to the engine.  A callable destroyed while it was running
\* (or reached through an address of destroyed storage) may just as well
\* bring the program down.
cb_return(t) ==
  /\ InCallback(t)
  /\ \/ /\ \E userOutcome \in {"returned", "threw"} :
            stack' = [stack EXCEPT ![t] =
              Append(SubSeq(stack[t], 1, Depth(t) - 2),
                     AfterCallback(stack[t][Depth(t) - 1], userOutcome,
                                   Adapter(userOutcome)))]
        /\ UNCHANGED timer
     \/ /\ Top(t).flag
        /\ timer' = "crashed"
        /\ UNCHANGED stack
  /\ result' = NoRes
  /\ ecall' = NoCall
  /\ UNCHANGED <<native, handleMember, handleExt, clockHeld, ctxHeld,
                 clockMutex, cbVars, in_use_by_wait_set_, canceled, hist>>

\* lines 108-111: unlock, then throw when the engine call failed.  The
\* result keeps the adapter that ran (nval, 0 for none), the callback that
\* stayed installed from the call's beginning to the engine call (eng, -1
\* when a registration was in progress in between), whether the user
\* callback threw (bval) and whether the callback had last been cleared.
reset_exit(t) ==
  /\ Depth(t) > 0 /\ Top(t).op = "reset"
  /\ Top(t).pc \in {"reset_exit", "reset_exit_threw"}
  /\ callback_mutex_' = Release(callback_mutex_)
  /\ stack' = Pop(t)
  /\ result' = Done(t,
       [Res("reset",
            IF Top(t).ret = "user_exception" THEN "user_exception"
            ELSE Status(Top(t).ret),
            Top(t).ret, Top(t).pc = "reset_exit_threw", Top(t).inv,
            Top(t).id, hist.lastMut) EXCEPT !.flag = Top(t).flag])
  /\ ecall' = NoCall
  /\ UNCHANGED <<lifeVars, on_reset_callback_, enginePtr, tmpAlive, nextId,
                 in_use_by_wait_set_, canceled, hist>>

\* --------------------------------------------------- 4.1 handle lifecycle
\* The order of the steps of the timer_handle_ deleter (lines 45-60): lock
\* the clock's mutex, rcl_timer_fini, unlock, delete the record, and only
\* then drop the captured clock and rcl_context.
DeleterReleasesFirst(pc) ==
  CASE pc = "start" -> "del_clock"
    [] pc = "del_clock" -> "del_ctx"
    [] pc = "del_ctx" -> "del_lock"
    [] pc = "del_lock" -> "del_fini"
    [] pc = "del_fini" -> "del_unlock"
    [] pc = "del_unlock" -> "del_delete"
    [] pc = "del_delete" -> "done"

DeleterNext(pc) ==
  CASE pc = "start" -> "del_lock"
    [] pc = "del_lock" -> "del_fini"
    [] pc = "del_fini" -> "del_unlock"
    [] pc = "del_unlock" -> "del_delete"
    [] pc = "del_delete" -> "del_clock"
    [] pc = "del_clock" -> "del_ctx"
    [] pc = "del_ctx" -> "done"

DeleterFrame == Frame("deleter", DeleterNext("start"), 0, RCL_RET_OK, {})

\* The stack of thread t after the deleter's step at the top.
DeleterStep(t) ==
  IF DeleterNext(Top(t).pc) = "done" THEN Pop(t)
  ELSE Goto(t, DeleterNext(Top(t).pc))

\* TimerBase::TimerBase, lines 32-36: the parameters are copies, clock_ is
\* initialized from clock, timer_handle_ is null.
TimerBase(t) ==
  /\ timer = "none"
  /\ Depth(t) = 0
  /\ timer' = "constructing"
  /\ clockHeld' = clockHeld \cup {"param", "member"}
  /\ stack' = Push(t, Frame("ctor", "ctor_ctx", 0, RCL_RET_OK, {}))
  /\ result' = NoRes
  /\ ecall' = NoCall
  /\ UNCHANGED <<native, handleMember, handleExt, ctxHeld, clockMutex, cbVars,
                 in_use_by_wait_set_, canceled, hist>>

\* lines 38-42: the given or the default context, and its rcl_context.
ctor_ctx(t) ==
  /\ At(t, "ctor", "ctor_ctx")
  /\ ctxHeld' = ctxHeld \cup {"local"}
  /\ stack' = Goto(t, "ctor_handle")
  /\ result' = NoRes
  /\ ecall' = NoCall
  /\ UNCHANGED <<timer, native, handleMember, handleExt, clockHeld,
                 clockMutex, cbVars, in_use_by_wait_set_, canceled, hist>>

\* lines 44-60: the record is allocated and given to timer_handle_ with the
\* deleter, which captures clock and rcl_context by copy.
ctor_handle(t) ==
  /\ At(t, "ctor", "ctor_handle")
  /\ native' = "allocated"
  /\ handleMember' = TRUE
  /\ clockHeld' = clockHeld \cup {"capture"}
  /\ ctxHeld' = ctxHeld \cup {"capture"}
  /\ stack' = Goto(t, "ctor_zero")
  /\ result' = NoRes
  /\ ecall' = NoCall
  /\ UNCHANGED <<timer, handleExt, clockMutex, cbVars, in_use_by_wait_set_,
                 canceled, hist>>

\* line 62: rcl_get_zero_initialized_timer
ctor_zero(t) ==
  /\ At(t, "ctor", "ctor_zero")
  /\ native' = "zero"
  /\ stack' = Goto(t, "ctor_lock")
  /\ result' = NoRes
  /\ ecall' = NoCall
  /\ UNCHANGED <<timer, handleMember, handleExt, clockHeld, ctxHeld,
                 clockMutex, cbVars, in_use_by_wait_set_, canceled, hist>>

\* line 66: lock the clock's mutex.
ctor_lock(t) ==
  /\ At(t, "ctor", "ctor_lock")
  /\ clockMutex = "none"
  /\ clockMutex' = t
  /\ stack' = Goto(t, "ctor_init")
  /\ result' = NoRes
  /\ ecall' = NoCall
  /\ UNCHANGED <<timer, native, handleMember, handleExt, clockHeld, ctxHeld,
                 cbVars, in_use_by_wait_set_, canceled, hist>>

\* lines 67-69: rcl_timer_init
ctor_init(t) ==
  /\ At(t, "ctor", "ctor_init")
  /\ \E ret \in EngineRets("rcl_timer_init") :
       /\ ecall' = ECall("rcl_timer_init", t, ret)
       /\ native' = IF ret = RCL_RET_OK THEN "inited" ELSE "init_failed"
       /\ stack' = GotoRet(t, "ctor_unlock", ret)
  /\ result' = NoRes
  /\ UNCHANGED <<timer, handleMember, handleExt, clockHeld, ctxHeld,
                 clockMutex, cbVars, in_use_by_wait_set_, canceled, hist>>

\* lines 70-72: the constructor goes on when rcl_timer_init returned
\* RCL_RET_OK and throws otherwise.
CtorIgnoresInitFailure(ret) == "ctor_exit"

CtorAfterInit(ret) == IF ret = RCL_RET_OK THEN "ctor_exit" ELSE "ctor_unwind"

\* lines 70-73: the guard unlocks, on the normal path and on the throw.
ctor_unlock(t) ==
  /\ At(t, "ctor", "ctor_unlock")
  /\ clockMutex' = "none"
  /\ stack' = Goto(t, CtorAfterInit(Top(t).ret))
  /\ result' = NoRes
  /\ ecall' = NoCall
  /\ UNCHANGED <<timer, native, handleMember, handleExt, clockHeld, ctxHeld,
                 cbVars, in_use_by_wait_set_, canceled, hist>>

\* line 74: the constructor returns; its locals and parameters go.
ctor_exit(t) ==
  /\ At(t, "ctor", "ctor_exit")
  /\ timer' = "alive"
  /\ clockHeld' = clockHeld \ {"param"}
  /\ ctxHeld' = ctxHeld \ {"local"}
  /\ stack' = Pop(t)
  /\ result' = Done(t,
       Res("TimerBase", "ok", Top(t).ret, FALSE, 0, 0, hist.lastMut))
  /\ ecall' = NoCall
  /\ UNCHANGED <<native, handleMember, handleExt, clockMutex, cbVars,
                 in_use_by_wait_set_, canceled, hist>>

\* line 71 throws: the locals go, then the members built so far are
\* destroyed; timer_handle_ is the record's only owner, so its deleter runs.
ctor_unwind(t) ==
  /\ At(t, "ctor", "ctor_unwind")
  /\ ctxHeld' = ctxHeld \ {"local"}
  /\ handleMember' = FALSE
  /\ stack' = [stack EXCEPT ![t] =
       Append(SubSeq(stack[t], 1, Depth(t) - 1),
              [Top(t) EXCEPT !.pc = "ctor_unwind_clock"]) \o <<DeleterFrame>>]
  /\ result' = NoRes
  /\ ecall' = NoCall
  /\ UNCHANGED <<timer, native, handleExt, clockHeld, clockMutex, cbVars,
                 in_use_by_wait_set_, canceled, hist>>

\* clock_ and the parameters go, and the exception reaches the caller: no
\* timer exists.
ctor_unwind_clock(t) ==
  /\ At(t, "ctor", "ctor_unwind_clock")
  /\ timer' = "failed"
  /\ clockHeld' = clockHeld \ {"param", "member"}
  /\ stack' = Pop(t)
  /\ result' = Done(t,
       Res("TimerBase", Status(Top(t).ret), Top(t).ret, FALSE, 0, 0,
           hist.lastMut))
  /\ ecall' = NoCall
  /\ UNCHANGED <<native, handleMember, handleExt, ctxHeld, clockMutex, cbVars,
                 in_use_by_wait_set_, canceled, hist>>

\* The deleter, line 48: lock the clock's mutex.
del_lock(t) ==
  /\ At(t, "deleter", "del_lock")
  /\ clockMutex = "none"
  /\ clockMutex' = t
  /\ stack' = DeleterStep(t)
  /\ result' = NoRes
  /\ ecall' = NoCall
  /\ UNCHANGED <<timer, native, handleMember, handleExt, clockHeld, ctxHeld,
                 cbVars, in_use_by_wait_set_, canceled, hist>>

\* lines 49-54: rcl_timer_fini; a failure is logged.
del_fini(t) ==
  /\ At(t, "deleter", "del_fini")
  /\ \E ret \in EngineRets("rcl_timer_fini") :
       ecall' = ECall("rcl_timer_fini", t, ret)
  /\ native' = "finalized"
  /\ hist' = [hist EXCEPT !.finiCount = @ + 1,
                          !.finiOf = native]
  /\ stack' = DeleterStep(t)
  /\ result' = NoRes
  /\ UNCHANGED <<timer, handleMember, handleExt, clockHeld, ctxHeld,
                 clockMutex, cbVars, in_use_by_wait_set_, canceled>>

\* line 55: the guard unlocks.
del_unlock(t) ==
  /\ At(t, "deleter", "del_unlock")
  /\ clockMutex' = IF clockMutex = t THEN "none" ELSE clockMutex
  /\ stack' = DeleterStep(t)
  /\ result' = NoRes
  /\ ecall' = NoCall
  /\ UNCHANGED <<timer, native, handleMember, handleExt, clockHeld, ctxHeld,
                 cbVars, in_use_by_wait_set_, canceled, hist>>

\* line 56: delete timer
del_delete(t) ==
  /\ At(t, "deleter", "del_delete")
  /\ native' = "freed"
  /\ stack' = DeleterStep(t)
  /\ result' = NoRes
  /\ ecall' = NoCall
  /\ UNCHANGED <<timer, handleMember, handleExt, clockHeld, ctxHeld,
                 clockMutex, cbVars, in_use_by_wait_set_, canceled, hist>>

\* line 58: clock.reset()
del_clock(t) ==
  /\ At(t, "deleter", "del_clock")
  /\ clockHeld' = clockHeld \ {"capture"}
  /\ stack' = DeleterStep(t)
  /\ result' = NoRes
  /\ ecall' = NoCall
  /\ UNCHANGED <<timer, native, handleMember, handleExt, ctxHeld, clockMutex,
                 cbVars, in_use_by_wait_set_, canceled, hist>>

\* line 59: rcl_context.reset()
del_ctx(t) ==
  /\ At(t, "deleter", "del_ctx")
  /\ ctxHeld' = ctxHeld \ {"capture"}
  /\ stack' = DeleterStep(t)
  /\ result' = NoRes
  /\ ecall' = NoCall
  /\ UNCHANGED <<timer, native, handleMember, handleExt, clockHeld,
                 clockMutex, cbVars, in_use_by_wait_set_, canceled, hist>>

\* The calls in progress when ~TimerBase begins: the destructor, and the
\* clear_on_reset_callback() of line 78 that it calls first.
DtorSkipsClear == <<Frame("dtor", "dtor_members", 0, RCL_RET_OK, {})>>

DtorFrames ==
  <<Frame("dtor", "dtor_members", 0, RCL_RET_OK, {}),
    Frame("clear", "clear_lock", 0, RCL_RET_OK, {})>>

\* TimerBase::~TimerBase, line 78: no call on the timer is in progress; the
\* destructor calls clear_on_reset_callback().
Destroy(t) ==
  /\ timer = "alive"
  /\ \A u \in Threads : Depth(u) = 0
  /\ timer' = "destructing"
  /\ stack' = [stack EXCEPT ![t] = DtorFrames]
  /\ hist' = [hist EXCEPT !.cur = -1, !.cleared = FALSE]
  /\ result' = NoRes
  /\ ecall' = NoCall
  /\ UNCHANGED <<native, handleMember, handleExt, clockHeld, ctxHeld,
                 clockMutex, cbVars, in_use_by_wait_set_, canceled>>

\* std::shared_ptr<rcl_timer_t>: the deleter runs when the record is left
\* without owner, timer_handle_ (member) or a copy of it returned by
\* get_timer_handle (ext of them).
MemberOwnsAlone(member, ext) == ~member

LastOwnerGone(member, ext) == ~member /\ ext = 0

\* line 79: the members are destroyed; timer_handle_ gives up the record and
\* the deleter runs when nobody else owns it.
dtor_members(t) ==
  /\ timer = "destructing"
  /\ At(t, "dtor", "dtor_members")
  /\ handleMember' = FALSE
  /\ stack' = [stack EXCEPT ![t] =
       Append(SubSeq(stack[t], 1, Depth(t) - 1),
              [Top(t) EXCEPT !.pc = "dtor_clock"])
       \o (IF LastOwnerGone(FALSE, handleExt) THEN <<DeleterFrame>>
          ELSE <<>>)]
  /\ result' = NoRes
  /\ ecall' = NoCall
  /\ UNCHANGED <<timer, native, handleExt, clockHeld, ctxHeld, clockMutex,
                 cbVars, in_use_by_wait_set_, canceled, hist>>

\* clock_ is destroyed and the destructor returns.
dtor_clock(t) ==
  /\ At(t, "dtor", "dtor_clock")
  /\ timer' = "destroyed"
  /\ clockHeld' = clockHeld \ {"member"}
  /\ stack' = Pop(t)
  /\ result' = Done(t,
       Res("~TimerBase", "ok", RCL_RET_OK, FALSE, 0, 0, hist.lastMut))
  /\ ecall' = NoCall
  /\ UNCHANGED <<native, handleMember, handleExt, ctxHeld, clockMutex, cbVars,
                 in_use_by_wait_set_, canceled, hist>>

\* TimerBase::get_timer_handle: one more owner of the record.
get_timer_handle(t) ==
  /\ CanCall(t)
  /\ handleExt < MaxExtRefs
  /\ handleExt' = handleExt + 1
  /\ result' = Done(t,
       Res("get_timer_handle", "ok", RCL_RET_OK, FALSE, 0, 0, hist.lastMut))
  /\ ecall' = NoCall
  /\ UNCHANGED <<timer, native, handleMember, clockHeld, ctxHeld, clockMutex,
                 cbVars, in_use_by_wait_set_, canceled, stack, hist>>

\* An owner obtained through get_timer_handle drops its reference; the last
\* owner of the record runs the deleter.
ReleaseHandle(t) ==
  /\ Depth(t) = 0
  /\ handleExt > 0
  /\ handleExt' = handleExt - 1
  /\ stack' = IF LastOwnerGone(handleMember, handleExt - 1)
              THEN Push(t, DeleterFrame)
              ELSE stack
  /\ result' = NoRes
  /\ ecall' = NoCall
  /\ UNCHANGED <<timer, native, handleMember, clockHeld, ctxHeld, clockMutex,
                 cbVars, in_use_by_wait_set_, canceled, hist>>

\* ------------------------------------------------------------ environment
\* The owner of the clock drops its reference.
OwnerReleasesClock ==
  /\ timer \notin {"none", "constructing"}
  /\ "owner" \in clockHeld
  /\ clockMutex # OtherUser
  /\ clockHeld' = clockHeld \ {"owner"}
  /\ result' = NoRes
  /\ ecall' = NoCall
  /\ UNCHANGED <<timer, native, handleMember, handleExt, ctxHeld, clockMutex,
                 cbVars, in_use_by_wait_set_, canceled, stack, hist>>

\* The context is shut down and dropped by its owner.
OwnerReleasesContext ==
  /\ timer \notin {"none", "constructing"}
  /\ "owner" \in ctxHeld
  /\ ctxHeld' = ctxHeld \ {"owner"}
  /\ result' = NoRes
  /\ ecall' = NoCall
  /\ UNCHANGED <<timer, native, handleMember, handleExt, clockHeld,
                 clockMutex, cbVars, in_use_by_wait_set_, canceled, stack,
                 hist>>

\* Another user of the clock takes and gives back the clock's mutex.
OtherLocksClock ==
  /\ "owner" \in clockHeld
  /\ clockMutex = "none"
  /\ clockMutex' = OtherUser
  /\ result' = NoRes
  /\ ecall' = NoCall
  /\ UNCHANGED <<timer, native, handleMember, handleExt, clockHeld, ctxHeld,
                 cbVars, in_use_by_wait_set_, canceled, stack, hist>>

OtherUnlocksClock ==
  /\ clockMutex = OtherUser
  /\ clockMutex' = "none"
  /\ result' = NoRes
  /\ ecall' = NoCall
  /\ UNCHANGED <<timer, native, handleMember, handleExt, clockHeld, ctxHeld,
                 cbVars, in_use_by_wait_set_, canceled, stack, hist>>

\* ------------------------------------------------------------------ Next
\* The program runs until it is ended by std::terminate or by a crash.
Running == timer \notin {"terminated", "crashed"}

Query(t) ==
  \/ cancel(t)
  \/ is_canceled(t)
  \/ is_ready(t)
  \/ time_until_trigger(t)
  \/ exchange_in_use_by_wait_set_state(t)

Reset(t) ==
  \/ reset(t)
  \/ reset_lock(t)
  \/ reset_engine(t)
  \/ cb_return(t)
  \/ reset_exit(t)

Registration(t) ==
  \/ set_on_reset_callback(t)
  \/ set_lock(t)
  \/ set_tmp(t)
  \/ set_store(t)
  \/ set_perm(t)
  \/ set_unlock(t)
  \/ set_exit(t)
  \/ clear_on_reset_callback(t)
  \/ clear_lock(t)
  \/ clear_check(t)
  \/ clear_store(t)
  \/ clear_exit(t)

Lifecycle(t) ==
  \/ TimerBase(t)
  \/ ctor_ctx(t)
  \/ ctor_handle(t)
  \/ ctor_zero(t)
  \/ ctor_lock(t)
  \/ ctor_init(t)
  \/ ctor_unlock(t)
  \/ ctor_exit(t)
  \/ ctor_unwind(t)
  \/ ctor_unwind_clock(t)
  \/ del_lock(t)
  \/ del_fini(t)
  \/ del_unlock(t)
  \/ del_delete(t)
  \/ del_clock(t)
  \/ del_ctx(t)
  \/ Destroy(t)
  \/ dtor_members(t)
  \/ dtor_clock(t)
  \/ get_timer_handle(t)
  \/ ReleaseHandle(t)

Environment ==
  \/ OwnerReleasesClock
  \/ OwnerReleasesContext
  \/ OtherLocksClock
  \/ OtherUnlocksClock

Next ==
  /\ Running
  /\ \/ \E t \in Threads : Query(t) \/ Reset(t) \/ Registration(t)
                            \/ Lifecycle(t)
     \/ Environment

Spec == Init /\ [][Next]_vars

\* Construction, registration of callbacks, destruction, and the holders of
\* the clock, the context and the native handle.
NextLife ==
  /\ Running
  /\ \/ \E t \in Threads : Lifecycle(t) \/ Registration(t)
     \/ Environment

SpecLife == Init /\ [][NextLife]_vars

\* The state a successful construction leaves (ctor_exit): the timer's
\* operations on a live timer, from any threads.
InitAlive ==
  /\ timer = "alive"
  /\ native = "inited"
  /\ handleMember = TRUE
  /\ handleExt = 0
  /\ clockHeld = {"owner", "member", "capture"}
  /\ ctxHeld = {"owner", "capture"}
  /\ clockMutex = "none"
  /\ callback_mutex_ = [owner |-> "none", count |-> 0]
  /\ on_reset_callback_ = NoCallback
  /\ in_use_by_wait_set_ = FALSE
  /\ canceled = FALSE
  /\ enginePtr = NullPtr
  /\ tmpAlive = {}
  /\ nextId = 1
  /\ stack = [t \in Threads |-> <<>>]
  /\ result = Done("none", NoRes)
  /\ ecall = NoCall
  /\ hist = [lastMut |-> "none", claimed |-> 0, claimer |-> "none",
             last |-> "none", finiCount |-> 0,
             retired |-> {}, cur |-> 0, cleared |-> FALSE,
             replaced |-> FALSE,
             finiOf |-> "none", dtorCleared |-> FALSE,
             regFailed |-> FALSE]

NextCb ==
  /\ Running
  /\ \E t \in Threads : Reset(t) \/ Registration(t)

SpecCb == InitAlive /\ [][NextCb]_vars

NextQuery ==
  /\ Running
  /\ \E t \in Threads :
       Query(t) \/ reset(t) \/ reset_lock(t) \/ reset_engine(t)
         \/ reset_exit(t)

SpecQuery == InitAlive /\ [][NextQuery]_vars

\* The queries and reset on a live timer whose clock is shared with another
\* user, which takes and gives back the clock's mutex around its own engine
\* calls.
NextClock ==
  /\ Running
  /\ \/ \E t \in Threads :
          is_ready(t) \/ time_until_trigger(t) \/ reset(t) \/ reset_lock(t)
            \/ reset_engine(t) \/ reset_exit(t)
     \/ OtherLocksClock
     \/ OtherUnlocksClock

SpecClock == InitAlive /\ [][NextClock]_vars

\* reset and the registration calls on a live timer, from any threads and
\* from inside the on-reset callback, which may also call cancel.
NextNested ==
  /\ Running
  /\ \E t \in Threads :
       Reset(t) \/ Registration(t) \/ (InCallback(t) /\ cancel(t))

SpecNested == InitAlive /\ [][NextNested]_vars

\* The frame is past its lock_guard on callback_mutex_ and has not left its
\* scope.
HoldsLock(f) ==
  \/ f.op = "reset" /\ f.pc \in {"reset_engine", "reset_exit",
                                   "reset_exit_threw"}
  \/ f.op = "set" /\ f.pc \in {"set_tmp", "set_store", "set_perm",
                                 "set_unlock"}
  \/ f.op = "clear" /\ f.pc \in {"clear_check", "clear_store", "clear_exit"}

LocksHeld(t) ==
  Cardinality({i \in 1 .. Len(stack[t]) : HoldsLock(stack[t][i])})

\* The thread is about to lock callback_mutex_.
WaitsForLock(t) ==
  Depth(t) > 0 /\ Top(t).pc \in {"reset_lock", "set_lock", "clear_lock"}

TypeOK ==
  /\ timer \in {"none", "constructing", "alive", "destructing", "destroyed",
                "failed", "terminated", "crashed"}
  /\ handleExt \in 0 .. MaxExtRefs
  /\ on_reset_callback_ \in 0 .. MaxInstalls
  /\ nextId \in 1 .. MaxInstalls + 1
  /\ \A t \in Threads : Depth(t) <= MaxStack + 1

\* ================================================================ claims
\* C1: rcl_timer_fini runs with the clock's mutex held and with the clock
\* and the context alive; the deleter's own references to them are dropped
\* only once finalize has completed and the record is freed; a destroyed
\* timer whose deleter has returned has dropped its own references only, so a
\* clock another holder still references stays valid.
C1_FinalizeBeforeRelease ==
  /\ ecall.fn = "rcl_timer_fini" =>
       ecall.clockLocked /\ ecall.clockAlive /\ ecall.ctxAlive
  /\ \A t \in Threads :
       (Depth(t) > 0 /\ Top(t).op = "deleter"
          /\ Top(t).pc \in {"del_fini", "del_unlock"}) =>
         clockMutex = t /\ ClockAlive /\ CtxAlive
  /\ native \notin {"none", "freed"} =>
       "capture" \in clockHeld /\ "capture" \in ctxHeld
  /\ native = "freed" => hist.finiCount = 1
  /\ (timer = "destroyed" /\ native = "freed"
        /\ \A t \in Threads : Depth(t) = 0) =>
       /\ clockHeld \subseteq {"owner"} /\ ctxHeld \subseteq {"owner"}
       /\ "owner" \in clockHeld => ClockAlive

\* The timer is destroyed, its record finalized and freed, and the clock is
\* still referenced by its owner.
C1_Witness ==
  /\ timer = "destroyed" /\ native = "freed"
  /\ hist.finiCount = 1 /\ hist.finiOf = "inited"
  /\ clockHeld = {"owner"}

\* C4, as stated: when rcl_timer_init fails, construction fails with an
\* error, no handle is returned, and rcl_timer_fini is never invoked for the
\* record whose initialization failed.
C4_NoFinalizeAfterFailedInit ==
  /\ (result.op = "TimerBase" /\ result.ret # RCL_RET_OK) =>
       result.status = "rcl_error" /\ ~handleMember
  /\ hist.finiOf # "init_failed"

\* C4, amended: when rcl_timer_init fails, construction fails with an error
\* and no handle is returned; the deleter, installed with the handle before
\* the initialization, runs while the constructor unwinds: rcl_timer_fini is
\* invoked once on that record, which is freed before the error reaches the
\* caller.
C4_FailedInitIsFinalized ==
  /\ (result.op = "TimerBase" /\ result.ret # RCL_RET_OK) =>
       result.status = "rcl_error" /\ timer = "failed"
  /\ native = "init_failed" => timer = "constructing"
  /\ timer = "failed" =>
       /\ ~handleMember /\ handleExt = 0
       /\ native = "freed"
       /\ hist.finiCount = 1 /\ hist.finiOf = "init_failed"

\* Construction has just failed with the engine's error.
C4_Witness ==
  /\ result.op = "TimerBase" /\ result.status = "rcl_error"
  /\ timer = "failed" /\ hist.finiOf = "init_failed"

\* C5: exchange_in_use stores the new state and returns the value the flag
\* held immediately before, in one atomic step; so among the callers that
\* store true after the flag was last false, exactly one received false.
C5_ExchangeInUse ==
  /\ result.op = "exchange_in_use_by_wait_set_state" =>
       /\ result.bval = (result.eng = 1)
       /\ in_use_by_wait_set_ = (result.nval = 1)
  /\ in_use_by_wait_set_ => hist.claimed = 1
  /\ ~in_use_by_wait_set_ => hist.claimed = 0

\* Two threads raced on exchange_in_use(true): one claimed the timer, the
\* other has just been told it is in use.
C5_Witness ==
  /\ result.op = "exchange_in_use_by_wait_set_state"
  /\ result.nval = 1 /\ result.bval
  /\ hist.claimed = 1
  /\ hist.claimer # result.by

\* C9: is_canceled() reflects the most recent successful cancel() or reset():
\* false after construction, true after a cancel with no later reset, false
\* after a reset (one or several in a row) with no later cancel.
C9_IsCanceledReflectsLast ==
  /\ canceled = (hist.lastMut = "cancel")
  /\ (result.op = "is_canceled" /\ result.status = "ok") =>
       result.bval = (result.mut = "cancel")

\* is_canceled() has just returned true, after a cancel().
C9_Witness ==
  /\ result.op = "is_canceled" /\ result.status = "ok"
  /\ result.mut = "cancel" /\ result.bval

\* C10: time_until_trigger() returns the maximum duration, without error,
\* when the engine reports the canceled status, as it does after a cancel()
\* with no later reset(); any other non-success status is an error and a
\* success returns the engine's duration.  cancel, is_canceled, reset and
\* is_ready turn every non-success status, the canceled one included, into an
\* error.
C10_CanceledStatus ==
  /\ result.op = "time_until_trigger" =>
       /\ result.ret = RCL_RET_TIMER_CANCELED =>
            result.status = "ok" /\ result.nval = NanosecondsMax
       /\ result.ret = RCL_RET_OK =>
            result.status = "ok" /\ result.nval = result.eng
       /\ result.ret \notin {RCL_RET_OK, RCL_RET_TIMER_CANCELED} =>
            result.status = "rcl_error"
       /\ (result.mut = "cancel" /\ result.status = "ok") =>
            result.nval = NanosecondsMax
  /\ (result.op \in {"cancel", "is_canceled", "reset", "is_ready"}
        /\ result.ret # RCL_RET_OK) => result.status = "rcl_error"

\* time_until_trigger() has just returned the maximum after a cancel().
C10_Witness ==
  /\ result.op = "time_until_trigger" /\ result.mut = "cancel"
  /\ result.ret = RCL_RET_TIMER_CANCELED
  /\ result.status = "ok" /\ result.nval = NanosecondsMax

\* C2: in every reachable state the callback address registered with the
\* engine is empty or is the address of constructed, not yet destroyed
\* storage (the adapter on the installing call's stack, or the callback slot
\* holding a callback).
C2_EnginePtrValid == ValidPtr(enginePtr)

\* C3: every callback invocation fired by a reset runs an adapter installed
\* by some set_on_reset_callback call, through an address of live storage,
\* and never one that had been replaced or cleared before the reset began.
C3_FiredInstalled ==
  (ecall.fn = "rcl_timer_reset" /\ ecall.fired.id # -1) =>
    /\ ecall.fired.valid
    /\ ecall.fired.id \in 1 .. (nextId - 1)
    /\ ~ecall.fired.stale

\* C6: a reset that begins after set_on_reset_callback(B) returned, B having
\* replaced A, and whose engine call succeeds before any further
\* registration call begins, invokes B, once, and nothing else.
C6_NewestFires ==
  /\ (result.op = "reset" /\ result.ret = RCL_RET_OK /\ result.eng >= 1) =>
       result.nval = result.eng
  /\ (ecall.fn = "rcl_timer_reset" /\ ecall.fired.id # -1 /\ hist.cur >= 1) =>
       ecall.fired.id = hist.cur /\ ~ecall.fired.stale

\* A reset has just invoked the second callback, which had replaced the
\* first.
C6_Witness ==
  /\ result.op = "reset" /\ result.status = "ok"
  /\ result.eng = 2 /\ result.nval = 2
  /\ hist.replaced /\ hist.retired = {1}

\* C7: an exception of the user callback is caught by the adapter: it never
\* reaches the engine or the caller of reset(), which reports success when
\* the engine's reset call succeeded.
C7_CallbackFaultContained ==
  /\ \A t \in Threads : \A i \in 1 .. Len(stack[t]) :
       stack[t][i].ret # "user_exception"
  /\ (result.op = "reset" /\ result.bval) =>
       result.status = "ok" /\ result.ret = RCL_RET_OK
  /\ (result.op = "reset" /\ result.ret = RCL_RET_OK) => result.status = "ok"

\* A reset whose callback threw has just returned normally.
C7_Witness ==
  /\ result.op = "reset" /\ result.bval
  /\ result.nval >= 1 /\ result.status = "ok"

\* C8: a reset that begins after clear_on_reset_callback() returned, and
\* whose engine call is made before any further registration call begins,
\* invokes no callback and returns success when the engine call succeeded.
C8_ClearedResetSilent ==
  (result.op = "reset" /\ result.flag) =>
    /\ result.nval = 0
    /\ result.ret = RCL_RET_OK => result.status = "ok"

\* A reset has just returned success without invoking anything, after a
\* clear that removed an installed callback.
C8_Witness ==
  /\ result.op = "reset" /\ result.flag
  /\ result.status = "ok" /\ result.nval = 0
  /\ hist.retired # {}

\* The engine calls that read or mutate clock-derived state.
ClockCalls ==
  {"rcl_timer_init", "rcl_timer_fini", "rcl_timer_is_ready",
   "rcl_timer_get_time_until_next_call", "rcl_timer_reset"}

\* C11: every engine call that reads or mutates clock-derived state (the
\* initialization, the finalization, the readiness query, the
\* time-until-trigger query, reset) is made with the clock's mutex held by the
\* caller, so it never runs while another user of the shared clock holds the
\* mutex for an engine call of its own.
C11_ClockMutexHeld ==
  ecall.fn \in ClockCalls =>
    ecall.clockLocked /\ clockMutex # OtherUser

\* C12, as stated: each call a running callback makes on its timer (reset,
\* cancel, set_on_reset_callback, clear_on_reset_callback) acquires the
\* callback lock: when a nested cancel makes its engine call, the mutex is
\* owned once more than by the calls that enclose it.
C12_NestedCallsLock ==
  (ecall.fn = "rcl_timer_cancel" /\ ecall.by \in Threads
     /\ InCallback(ecall.by)) =>
    /\ callback_mutex_.owner = ecall.by
    /\ callback_mutex_.count >= LocksHeld(ecall.by) + 1

\* C12, amended: a callback invoked by reset() runs with callback_mutex_ held
\* by its thread; a reset, set_on_reset_callback or clear_on_reset_callback
\* it calls on the same timer takes the lock again without blocking, and a
\* cancel it calls takes no lock at all; each returns with the lock still
\* held by the outer call; the mutex is owned exactly as many times as its
\* owner has calls inside their locked scope, so another thread waits only
\* while some call of the owner is inside it and can lock as soon as the
\* outermost one has left.
C12_ReentrantLock ==
  /\ (ecall.fn = "rcl_timer_cancel" /\ ecall.by \in Threads
        /\ InCallback(ecall.by)) =>
       callback_mutex_.count = LocksHeld(ecall.by)
  /\ \A t \in Threads :
       LocksHeld(t) =
         IF callback_mutex_.owner = t THEN callback_mutex_.count ELSE 0
  /\ (callback_mutex_.owner = "none") = (callback_mutex_.count = 0)
  /\ \A t \in Threads :
       (WaitsForLock(t) /\ callback_mutex_.owner \in {"none", t}) =>
         ENABLED (reset_lock(t) \/ set_lock(t) \/ clear_lock(t))
  /\ \A t \in Threads : InCallback(t) => callback_mutex_.owner = t
  /\ (result.by \in Threads /\ InCallback(result.by)) =>
       /\ result.op \in {"reset", "cancel", "set_on_reset_callback",
                          "clear_on_reset_callback"}
       /\ callback_mutex_.owner = result.by

\* Inside a callback fired by reset(), a nested reset() that fired the
\* callback again has just returned; the outer reset still holds the lock and
\* the other thread waits for it.
C12_Witness ==
  /\ result.op = "reset" /\ result.status = "ok" /\ result.nval >= 1
  /\ result.by \in Threads /\ InCallback(result.by)
  /\ callback_mutex_ = [owner |-> result.by, count |-> 1]
  /\ \E u \in Threads \ {result.by} : WaitsForLock(u)

\* C13: the destructor unregisters the callback from the engine and empties
\* the slot before timer_handle_ gives up the native record, so rcl_timer_fini
\* always runs with no callback address registered with the engine.
C13_ClearedBeforeFinalize ==
  /\ ecall.fn = "rcl_timer_fini" => enginePtr = NullPtr
  /\ (timer = "destructing"
        /\ \E t \in Threads : At(t, "dtor", "dtor_members")) =>
       enginePtr = NullPtr /\ on_reset_callback_ = NoCallback
  /\ (timer \in {"destructing", "destroyed"} /\ ~handleMember) =>
       enginePtr = NullPtr /\ on_reset_callback_ = NoCallback

\* rcl_timer_fini has just run for a timer destroyed with a callback
\* installed, which the destructor unregistered and removed.
C13_Witness ==
  /\ ecall.fn = "rcl_timer_fini"
  /\ hist.dtorCleared /\ hist.finiOf = "inited"
  /\ enginePtr = NullPtr

\* C14: clear_on_reset_callback() makes its engine call only with a callback
\* in the slot; with none installed it makes no engine call and leaves the
\* empty slot and the empty registration as they are; every clear that
\* succeeds leaves the slot and the registration empty, so a second clear in
\* a row makes no engine call and leaves the state the first one left.
C14_ClearIdempotent ==
  /\ \A t \in Threads :
       (ecall.fn = "rcl_timer_set_on_reset_callback" /\ ecall.by = t
          /\ Depth(t) > 0 /\ Top(t).op = "clear") =>
         IF Top(t).ret = RCL_RET_OK
         THEN on_reset_callback_ # NoCallback /\ enginePtr = NullPtr
         ELSE on_reset_callback_ # NoCallback /\ enginePtr # NullPtr
  /\ \A t \in Threads :
       (At(t, "clear", "clear_exit") /\ Top(t).inv = 0) =>
         /\ Top(t).ret = RCL_RET_OK
         /\ on_reset_callback_ = NoCallback /\ enginePtr = NullPtr
  /\ (result.op = "clear_on_reset_callback" /\ result.status = "ok") =>
       on_reset_callback_ = NoCallback /\ enginePtr = NullPtr
  /\ (result.op = "clear_on_reset_callback" /\ result.flag) =>
       result.nval = 0 /\ result.status = "ok"

\* A second clear in a row has just returned: the first removed an installed
\* callback, the second made no engine call.
C14_Witness ==
  /\ result.op = "clear_on_reset_callback" /\ result.flag
  /\ result.nval = 0 /\ result.status = "ok"
  /\ hist.retired # {}
  /\ on_reset_callback_ = NoCallback /\ enginePtr = NullPtr

\* C15: set_on_reset_callback with a callback that is not callable throws
\* invalid_argument in its first step: it never gets to the lock or to an
\* engine call, and the step leaves callback_mutex_, the slot, the engine's
\* registration and the installed callback exactly as they were.
C15_NullCallbackRejected ==
  /\ [](\A t \in Threads : \A i \in 1 .. Len(stack[t]) :
          stack[t][i].op = "set" => ~stack[t][i].flag)
  /\ [][(result'.op = "set_on_reset_callback"
           /\ result'.status = "invalid_argument") =>
          /\ ecall' = NoCall
          /\ UNCHANGED <<callback_mutex_, on_reset_callback_, enginePtr,
                         tmpAlive, nextId, stack, hist>>]_vars

\* A call with a callback that is not callable has just been rejected while
\* a callback is installed and registered with the engine.
C15_Witness ==
  /\ result.op = "set_on_reset_callback"
  /\ result.status = "invalid_argument"
  /\ on_reset_callback_ >= 1 /\ enginePtr = SlotPtr
  /\ hist.cur = on_reset_callback_

\* C16, as stated: a failure of the unregistering engine call inside
\* clear_on_reset_callback() is fatal: it is never reported to the caller as
\* an error after which the program goes on with the timer.
C16_ClearFailureFatal ==
  (result.op = "clear_on_reset_callback" /\ result.ret # RCL_RET_OK) =>
    timer = "terminated"

\* C16, amended: the failure is fatal only when clear_on_reset_callback() was
\* called by the destructor (the exception leaves ~TimerBase and the program
\* ends before the handle is released); a caller of
\* clear_on_reset_callback() gets the engine's error as an exception and goes
\* on with the timer, whose slot and engine registration are as they were.
C16_ClearFailureThrows ==
  /\ (result.op = "clear_on_reset_callback" /\ result.ret # RCL_RET_OK) =>
       /\ result.status = "rcl_error"
       /\ timer \in {"alive", "terminated"}
       /\ on_reset_callback_ # NoCallback /\ enginePtr # NullPtr
       /\ timer = "terminated" =>
            /\ Depth(result.by) > 0 /\ Top(result.by).op = "dtor"
            /\ handleMember /\ native = "inited"
       /\ timer = "alive" =>
            \A i \in 1 .. Len(stack[result.by]) :
               stack[result.by][i].op # "dtor"
  /\ timer = "terminated" =>
       result.op = "clear_on_reset_callback" /\ result.ret # RCL_RET_OK

\* clear_on_reset_callback(), called on a live timer, has just thrown the
\* engine's error; the timer is alive with its callback still installed.
C16_Witness ==
  /\ result.op = "clear_on_reset_callback" /\ result.status = "rcl_error"
  /\ timer = "alive"
  /\ on_reset_callback_ >= 1 /\ enginePtr = SlotPtr

\* C17: when set_on_reset_callback(callback) has failed with an engine error
\* at one of its two registration calls, the engine is not left registered to
\* the call's temporary adapter and the slot does not hold the adapter the
\* call built.
C17_FailedSetLeavesNoTrace ==
  (result.op = "set_on_reset_callback" /\ result.status = "rcl_error") =>
    /\ enginePtr # TmpPtr(result.nval)
    /\ on_reset_callback_ # result.nval

\* C18: the callable stored in on_reset_callback_ is never overwritten or
\* released while an invocation of it, made by the engine through the slot's
\* address, is still in progress on any thread.
C18_SlotStableWhileRunning ==
  \A t \in Threads : \A i \in 1 .. Len(stack[t]) :
     (stack[t][i].op = "callback" /\ stack[t][i].via = SlotPtr) =>
       ~stack[t][i].flag

\* C19: as long as no registration call of the engine has failed, in every
\* state where no thread holds callback_mutex_ the engine's registered
\* address is empty exactly when the slot is empty, and is the address of the
\* slot, never of a temporary adapter, when the slot holds a callback.
C19_RegistrationMatchesSlot ==
  (~hist.regFailed /\ callback_mutex_.owner = "none") =>
    /\ (enginePtr = NullPtr) = (on_reset_callback_ = NoCallback)
    /\ on_reset_callback_ # NoCallback => enginePtr = SlotPtr
    /\ enginePtr.kind # "tmp"

\* Every engine call so far succeeded, a callback replaced another, a reset
\* has just fired it and nobody holds the lock: the engine is registered to
\* the slot.
C19_Witness ==
  /\ ~hist.regFailed /\ callback_mutex_.owner = "none"
  /\ result.op = "reset" /\ result.status = "ok" /\ result.nval = 2
  /\ on_reset_callback_ = 2 /\ enginePtr = SlotPtr
  /\ hist.retired = {1}

\* C20: rcl_timer_fini runs at most once, and never while timer_handle_ or a
\* reference returned by get_timer_handle() owns the record: a timer
\* destroyed with such a reference outstanding leaves the record initialized
\* and the clock and the context alive, and the record is finalized, once,
\* when the last reference is dropped.
C20_FinalizedOnceByLastHolder ==
  /\ hist.finiCount <= 1
  /\ (handleMember \/ handleExt > 0) =>
       /\ hist.finiCount = 0
       /\ native \notin {"finalized", "freed"}
       /\ ClockAlive /\ CtxAlive
  /\ (timer = "destroyed" /\ handleExt > 0) =>
       /\ native = "inited"
       /\ "capture" \in clockHeld /\ "capture" \in ctxHeld
  /\ (timer \in {"destroyed", "failed"} /\ handleExt = 0
        /\ \A t \in Threads : Depth(t) = 0) =>
       native = "freed" /\ hist.finiCount = 1

\* rcl_timer_fini has just run for a timer destroyed earlier: the last
\* reference obtained through get_timer_handle() has been dropped.
C20_Witness ==
  /\ ecall.fn = "rcl_timer_fini"
  /\ timer = "destroyed" /\ handleExt = 0 /\ ~handleMember
  /\ hist.finiCount = 1 /\ hist.finiOf = "inited"
  /\ ecall.clockAlive /\ ecall.ctxAlive

====
